---- MODULE Spec2Model ----
(***************************************************************************)
(* A model of pylascli/main.py: the three click commands `convert`, `info` *)
(* and `merge`, one run of one command per behaviour.                      *)
(*                                                                         *)
(* Paths and file names are sequences of one-character strings, so that    *)
(* os.path.split, str.endswith, the glob match and the "{}{}" formatting   *)
(* of line 219 are computed as Python computes them.                       *)
(*                                                                         *)
(* pylas, fs, click and progress are libraries outside this repository.    *)
(* What main.py relies on is modelled at the call site: the outcome of a   *)
(* call that may raise is chosen by \E over the outcomes the library can   *)
(* produce.                                                                *)
(***************************************************************************)
EXTENDS Integers, Sequences, FiniteSets, TLC

\* The longest FILES tuple of `merge` the model enumerates.
MaxFiles == 3

(***************************************************************************)
(* Optional values: None is the empty tuple, Some(x) a one-element tuple.  *)
(***************************************************************************)
None == <<>>
Some(x) == <<x>>

(***************************************************************************)
(* Names used by the model's file system and command lines.                *)
(***************************************************************************)
EMPTY == <<>>
SLASH == <<"/">>
LAZ_SUFFIX == <<".", "l", "a", "z">>
N_a_las == <<"a", ".", "l", "a", "s">>
N_b_las == <<"b", ".", "l", "a", "s">>
N_bad_las == <<"b", "a", "d", ".", "l", "a", "s">>
N_nope_las == <<"n", "o", ".", "l", "a", "s">>
N_x_las == <<"x", ".", "l", "a", "s">>
N_y_las == <<"y", ".", "l", "a", "s">>
N_z_laz == <<"z", ".", "l", "a", "z">>
N_d == <<"d">>
N_e == <<"e">>
N_q == <<"q">>
P_star_las == <<"*", ".", "l", "a", "s">>
P_star == <<"*">>
P_d_q == <<"d", "?">>
O_las == <<"o", ".", "l", "a", "s">>
O_laz == <<"o", ".", "l", "a", "z">>
O_LAZ == <<"o", ".", "L", "A", "Z">>
O_short == <<"l", "a", "z">>
O_mid == <<"o", ".", "l", "a", "z", ".", "x">>

(***************************************************************************)
(* The file system the runs see.  A directory is named as fs.open_fs is    *)
(* given it: EMPTY is the working directory, SLASH the root.  Children are *)
(* in directory-listing order.  A valid point-cloud file has a point       *)
(* format id, a version, a point count and a compression flag.             *)
(***************************************************************************)
File(n, f, v, c, z) ==
    [name |-> n, kind |-> "file", valid |-> TRUE, fmt |-> f, ver |-> v,
     count |-> c, compressed |-> z]
Junk(n) ==
    [name |-> n, kind |-> "file", valid |-> FALSE, fmt |-> 0, ver |-> "1.2",
     count |-> 0, compressed |-> FALSE]
Dir(n) ==
    [name |-> n, kind |-> "dir", valid |-> FALSE, fmt |-> 0, ver |-> "1.2",
     count |-> 0, compressed |-> FALSE]

Dirs == {EMPTY, SLASH, N_d, N_e}

Listing(dir) ==
    IF dir = EMPTY THEN
        << File(N_a_las, 3, "1.2", 2, FALSE), File(N_b_las, 1, "1.2", 3, FALSE),
           Junk(N_bad_las), Dir(N_d), Dir(N_e) >>
    ELSE IF dir = N_d THEN
        << File(N_x_las, 3, "1.2", 1, FALSE), File(N_y_las, 3, "1.2", 2, FALSE),
           File(N_z_laz, 3, "1.2", 4, TRUE) >>
    ELSE << >>

Range(s) == { s[i] : i \in 1..Len(s) }

(***************************************************************************)
(* String helpers.                                                         *)
(***************************************************************************)
\* str.endswith(suffix)
EndsWith(s, suffix) ==
    /\ Len(s) >= Len(suffix)
    /\ SubSeq(s, Len(s) - Len(suffix) + 1, Len(s)) = suffix

\* str.rfind("/") + 1: the length of the prefix ending at the last "/".
RFindSep(p) ==
    LET idx == { i \in 1..Len(p) : p[i] = "/" }
    IN  IF idx = {} THEN 0 ELSE CHOOSE i \in idx : \A j \in idx : j <= i

\* str.rstrip("/")
RECURSIVE RStripSep(_)
RStripSep(s) ==
    IF s # <<>> /\ s[Len(s)] = "/" THEN RStripSep(SubSeq(s, 1, Len(s) - 1)) ELSE s

\* os.path.split (posixpath): <<head, tail>>
PathSplit(p) ==
    LET i == RFindSep(p)
        head == SubSeq(p, 1, i)
        tail == SubSeq(p, i + 1, Len(p))
    IN  IF head # <<>> /\ \E k \in 1..Len(head) : head[k] # "/"
        THEN << RStripSep(head), tail >>
        ELSE << head, tail >>

(***************************************************************************)
(* fs.glob: the pattern is translated to a regular expression ("*" to      *)
(* "[^/]*", "?" to ".", any other character to itself) anchored as         *)
(* "^/<pattern>$" and matched against "/" + name, with "/" appended to a   *)
(* directory's path.                                                       *)
(***************************************************************************)
RECURSIVE WildMatch(_, _)
WildMatch(pat, s) ==
    IF pat = <<>> THEN s = <<>>
    ELSE IF Head(pat) = "*" THEN
        \E k \in 0..Len(s) :
            /\ \A j \in 1..k : s[j] # "/"
            /\ WildMatch(Tail(pat), SubSeq(s, k + 1, Len(s)))
    ELSE IF Head(pat) = "?" THEN
        s # <<>> /\ WildMatch(Tail(pat), Tail(s))
    ELSE
        s # <<>> /\ Head(s) = Head(pat) /\ WildMatch(Tail(pat), Tail(s))

\* The path fs.walk reports for an entry of the opened directory.
WalkPath(entry) ==
    SLASH \o entry.name \o (IF entry.kind = "dir" THEN SLASH ELSE <<>>)

\* An empty pattern has no component: its expression is "^$".
GlobMatches(pattern, entry) ==
    IF pattern = <<>> THEN FALSE
    ELSE WildMatch(SLASH \o pattern, WalkPath(entry))

\* [match.path for match in ffs.glob(pattern)], in listing order
RECURSIVE GlobPaths(_, _)
GlobPaths(listing, pattern) ==
    IF listing = <<>> THEN <<>>
    ELSE (IF GlobMatches(pattern, Head(listing))
          THEN << WalkPath(Head(listing)) >> ELSE <<>>)
         \o GlobPaths(Tail(listing), pattern)

\* ["{}{}".format(base, match.path) for match in ffs.glob(pattern)]
RECURSIVE Prefixed(_, _)
Prefixed(base, paths) ==
    IF paths = <<>> THEN <<>>
    ELSE << base \o Head(paths) >> \o Prefixed(base, Tail(paths))

(***************************************************************************)
(* The libraries' side of the calls main.py makes.                         *)
(***************************************************************************)
\* pylas.supported_point_formats()
SupportedPointFormats == {0, 1, 2, 3, 6, 7, 8, 9, 10}

\* pylas.supported_versions()
SupportedVersions == {"1.2", "1.3", "1.4"}

BaseDims ==
    {"X", "Y", "Z", "intensity", "return_number", "number_of_returns",
     "scan_direction_flag", "edge_of_flight_line", "classification",
     "synthetic", "key_point", "withheld", "user_data", "point_source_id"}
ColorDims == {"red", "green", "blue"}
WaveDims ==
    {"wavepacket_index", "wavepacket_offset", "wavepacket_size",
     "return_point_wave_location", "x_t", "y_t", "z_t"}

\* The dimension names of a point format.
Dimensions(f) ==
    CASE f = 0 -> BaseDims \cup {"scan_angle_rank"}
      [] f = 1 -> BaseDims \cup {"scan_angle_rank", "gps_time"}
      [] f = 2 -> BaseDims \cup {"scan_angle_rank"} \cup ColorDims
      [] f = 3 -> BaseDims \cup {"scan_angle_rank", "gps_time"} \cup ColorDims
      [] f = 6 -> BaseDims \cup {"scan_angle", "gps_time", "overlap", "scanner_channel"}
      [] f = 7 -> BaseDims \cup {"scan_angle", "gps_time", "overlap", "scanner_channel"}
                  \cup ColorDims
      [] f = 8 -> BaseDims \cup {"scan_angle", "gps_time", "overlap", "scanner_channel"}
                  \cup ColorDims \cup {"nir"}
      [] f = 9 -> BaseDims \cup {"scan_angle", "gps_time", "overlap", "scanner_channel"}
                  \cup WaveDims
      [] f = 10 -> BaseDims \cup {"scan_angle", "gps_time", "overlap", "scanner_channel"}
                  \cup ColorDims \cup {"nir"} \cup WaveDims
      [] OTHER -> {}

\* pylas.lost_dimensions(point_fmt_in, point_fmt_out)
LostDimensions(fmt_in, fmt_out) == Dimensions(fmt_in) \ Dimensions(fmt_out)

\* The point formats a file version can hold.
VersionFormats(v) ==
    CASE v = "1.2" -> {0, 1, 2, 3}
      [] v = "1.3" -> {0, 1, 2, 3}
      [] OTHER -> SupportedPointFormats

\* The lowest version that holds a point format.
MinVersion(f) == IF f \in {0, 1, 2, 3} THEN "1.2" ELSE "1.4"

\* max() of two version strings
MaxVersion(v, w) ==
    IF v = w THEN v
    ELSE IF "1.4" \in {v, w} THEN "1.4"
    ELSE IF "1.3" \in {v, w} THEN "1.3" ELSE "1.2"

\* The entry a directory holds under a name, if any.
Stat(dir, name) ==
    { e \in Range(Listing(dir)) : e.name = name }

\* The outcome of openbin_file(url, mode): fs.open_fs(basename) raises
\* CreateFailed for a directory that does not exist; ffs.openbin raises
\* FileExpected for a directory and, when reading, ResourceNotFound for a
\* missing file.  Mode 'w' creates a missing file.
openbin_file(url, mode) ==
    LET basename == PathSplit(url)[1]
        filename == PathSplit(url)[2]
    IN  IF basename \notin Dirs THEN "CreateFailed"
        ELSE IF filename = <<>> THEN "FileExpected"
        ELSE IF \E e \in Stat(basename, filename) : e.kind = "dir" THEN "FileExpected"
        ELSE IF Stat(basename, filename) = {} /\ mode = "r" THEN "ResourceNotFound"
        ELSE "ok"

\* The file a url names, once openbin_file(url) has succeeded.
Entry(url) ==
    CHOOSE e \in Stat(PathSplit(url)[1], PathSplit(url)[2]) : TRUE

\* Whether pylas can parse what openbin_file(url) opened.
Parses(url) ==
    \E e \in Stat(PathSplit(url)[1], PathSplit(url)[2]) : e.valid

\* What pylas.read returns for a file.
Parsed(url) ==
    [src |-> url, fmt |-> Entry(url).fmt, ver |-> Entry(url).ver,
     count |-> Entry(url).count]

RECURSIVE SumCounts(_)
SumCounts(recs) ==
    IF recs = <<>> THEN 0 ELSE Head(recs).count + SumCounts(Tail(recs))

Sources(recs) == [ i \in 1..Len(recs) |-> recs[i].src ]

\* The outcomes pylas.convert can have: it raises a PylasError when the
\* requested version cannot hold the point format.
ConvertOutcomes(rec, pfid, ver) ==
    LET f == IF pfid = None THEN rec.fmt ELSE pfid[1]
    IN  IF ver # None /\ f \notin VersionFormats(ver[1])
        THEN {"PylasError"}
        ELSE {"ok", "PylasError", "Exception"}

\* What pylas.convert returns.
Converted(rec, pfid, ver) ==
    LET f == IF pfid = None THEN rec.fmt ELSE pfid[1]
    IN  [src |-> rec.src, fmt |-> f,
         ver |-> IF ver = None THEN MaxVersion(rec.ver, MinVersion(f)) ELSE ver[1],
         count |-> rec.count]

\* The outcomes pylas.merge can have: it raises for an empty list and for
\* files of different point formats.
MergeOutcomes(recs) ==
    IF recs = <<>> \/ \E i, j \in 1..Len(recs) : recs[i].fmt # recs[j].fmt
    THEN {"Exception"}
    ELSE {"ok", "Exception"}

\* What pylas.merge returns.
Merged(recs) ==
    [src |-> <<>>, fmt |-> recs[1].fmt, ver |-> recs[1].ver, count |-> SumCounts(recs)]

(***************************************************************************)
(* State.  The command line: cmd and the arguments of the three commands   *)
(* (those of the other two commands keep their defaults).  `files` is      *)
(* reassigned by line 219; cli_files keeps the FILES tuple as given.       *)
(* pc is the line the run is at.  las is convert's `las` / merge's         *)
(* `merged`; las_files the list line 221 builds.  The rest records what    *)
(* the run did: the calls it made in order, the handles it holds open, the *)
(* state of the destination file, the flag passed as do_compress, what     *)
(* pylas.merge was given, the user's answer, how the run ended.            *)
(***************************************************************************)
VARIABLES cmd, input, output, point_format_id, file_version, force,
          file, extended, vlrs, points, cli_files, dst,
          files, pc, las, las_files, events, handles, dest, do_compress,
          merge_arg, answer, exit_code, error, caught, message

cli == << cmd, input, output, point_format_id, file_version, force,
          file, extended, vlrs, points, cli_files, dst >>
ending == << exit_code, error, caught, message >>
vars == << cli, files, pc, las, las_files, events, handles, dest, do_compress,
           merge_arg, answer, ending >>

\* The command lines the model enumerates.
Inputs == {N_a_las, N_b_las, N_bad_las, N_nope_las, N_d \o SLASH \o N_x_las}
Outputs == {O_las, O_laz, O_LAZ, O_short, O_mid, N_q \o SLASH \o O_laz}
PointFormatIds == {None, Some(0), Some(1), Some(3), Some(5), Some(6)}
FileVersions == {None, Some("1.2"), Some("1.4"), Some("1.5")}
MergeArgs ==
    {N_a_las, N_b_las, N_nope_las, N_d, N_d \o SLASH \o N_x_las,
     N_d \o SLASH \o P_star_las, N_d \o SLASH \o P_star, P_star_las,
     N_e \o SLASH \o P_star, P_d_q}
FileTuples == UNION { [1..n -> MergeArgs] : n \in 0..MaxFiles }

Ev(op, name) == [op |-> op, name |-> name]
Handle(name, mode) == [name |-> name, mode |-> mode]

InitRun ==
    /\ pc = "start"
    /\ las = None
    /\ las_files = <<>>
    /\ events = <<>>
    /\ handles = {}
    /\ dest = "untouched"
    /\ do_compress = None
    /\ merge_arg = None
    /\ answer = "none"
    /\ exit_code = None
    /\ error = "none"
    /\ caught = FALSE
    /\ message = FALSE

InitConvert ==
    /\ cmd = "convert"
    /\ input \in Inputs
    /\ output \in Outputs
    /\ point_format_id \in PointFormatIds
    /\ file_version \in FileVersions
    /\ force \in BOOLEAN
    /\ file = EMPTY /\ extended = FALSE /\ vlrs = FALSE /\ points = FALSE
    /\ cli_files = <<>> /\ files = <<>> /\ dst = EMPTY

InitInfo ==
    /\ cmd = "info"
    /\ file \in Inputs \cup {N_d, N_q \o SLASH \o N_a_las, N_d \o SLASH \o N_z_laz}
    /\ extended \in BOOLEAN
    /\ vlrs \in BOOLEAN
    /\ points \in BOOLEAN
    /\ input = EMPTY /\ output = EMPTY /\ point_format_id = None
    /\ file_version = None /\ force = FALSE
    /\ cli_files = <<>> /\ files = <<>> /\ dst = EMPTY

InitMerge ==
    /\ cmd = "merge"
    /\ cli_files \in FileTuples
    /\ files = cli_files
    /\ dst \in Outputs
    /\ input = EMPTY /\ output = EMPTY /\ point_format_id = None
    /\ file_version = None /\ force = FALSE
    /\ file = EMPTY /\ extended = FALSE /\ vlrs = FALSE /\ points = FALSE

Init == InitRun /\ (InitConvert \/ InitInfo \/ InitMerge)

(***************************************************************************)
(* How a run ends.  click runs the command in standalone mode: a normal    *)
(* return exits 0, click.Abort prints "Aborted!" and exits 1, a UsageError *)
(* prints the usage and exits 2, any other exception leaves the command    *)
(* uncaught and the interpreter exits 1 with a traceback.                  *)
(***************************************************************************)
Finish(code, err, isCaught, msg) ==
    /\ pc' = "done"
    /\ exit_code' = Some(code)
    /\ error' = err
    /\ caught' = isCaught
    /\ message' = msg

\* return from the command
Return == Finish(0, "none", FALSE, FALSE)
\* click.echo(<the error>) then raise click.Abort()
EchoAbort(err) == Finish(1, err, TRUE, TRUE)
\* an exception no handler of the command catches
Uncaught(err) == Finish(1, err, FALSE, FALSE)

Done == pc = "done"

(***************************************************************************)
(* convert                                                                 *)
(***************************************************************************)
\* lines 61-64: the requested point format is not one pylas supports
FormatRejected ==
    point_format_id # None /\ point_format_id[1] \notin SupportedPointFormats

\* A convert that does not check the version.
VersionRejected_Never == FALSE

\* line 72: the requested version is not one pylas supports
VersionRejected ==
    file_version # None /\ file_version[1] \notin SupportedVersions

\* A line 81 that computes the lost dimensions under --force too.
NeedsLossCheck_IgnoresForce == point_format_id # None

\* line 81: the condition under which the lost dimensions are computed
NeedsLossCheck == point_format_id # None /\ ~force

\* click.confirm without abort=True: the answer is returned and dropped.
Proceeds_AnyAnswer(a) == TRUE

\* line 87: click.confirm("Continue ?", abort=True) returns only on a yes; a
\* no, an empty line (the default) and an end of input raise click.Abort.
Proceeds(a) == a = "yes"

\* '.laz' in <name> instead of <name>.endswith('.laz')
DoCompress_Contains(name) ==
    \E i \in 1..Len(name) :
        i + Len(LAZ_SUFFIX) - 1 <= Len(name)
        /\ SubSeq(name, i, i + Len(LAZ_SUFFIX) - 1) = LAZ_SUFFIX

\* lines 100 and 227: do_compress=<name>.endswith('.laz')
DoCompress(name) == EndsWith(name, LAZ_SUFFIX)

\* lines 61-70
ConvertValidateFormat ==
    /\ cmd = "convert" /\ pc = "start"
    /\ IF FormatRejected
       THEN EchoAbort("UnsupportedPointFormat")
       ELSE pc' = "convert_72" /\ UNCHANGED ending
    /\ UNCHANGED << cli, files, las, las_files, events, handles, dest,
                    do_compress, merge_arg, answer >>

\* lines 72-78
ConvertValidateVersion ==
    /\ pc = "convert_72"
    /\ IF VersionRejected
       THEN EchoAbort("UnsupportedVersion")
       ELSE pc' = "convert_80" /\ UNCHANGED ending
    /\ UNCHANGED << cli, files, las, las_files, events, handles, dest,
                    do_compress, merge_arg, answer >>

\* line 80: las = pylas.read(openbin_file(input)).  Neither call is inside
\* a try.  pylas.read closes the stream it was given when it returns; where
\* it raises before its reader exists the stream stays open.
ConvertRead ==
    /\ pc = "convert_80"
    /\ LET r == openbin_file(input, "r") IN
       IF r # "ok" THEN
           /\ events' = Append(events, Ev("open_r", input))
           /\ Uncaught(r)
           /\ UNCHANGED << las, handles >>
       ELSE IF ~Parses(input) THEN
           /\ events' = events \o << Ev("open_r", input), Ev("read", input) >>
           /\ \E closed \in BOOLEAN :
                 handles' = IF closed THEN handles
                            ELSE handles \cup {Handle(input, "r")}
           /\ Uncaught("PylasError")
           /\ UNCHANGED las
       ELSE
           /\ events' = events \o << Ev("open_r", input), Ev("read", input) >>
           /\ las' = Some(Parsed(input))
           /\ pc' = "convert_81"
           /\ UNCHANGED << handles, ending >>
    /\ UNCHANGED << cli, files, las_files, dest, do_compress, merge_arg, answer >>

\* lines 81-86
ConvertLoss ==
    /\ pc = "convert_81"
    /\ IF NeedsLossCheck THEN
           /\ events' = Append(events, Ev("lost_dimensions", EMPTY))
           /\ pc' = IF LostDimensions(las[1].fmt, point_format_id[1]) # {}
                    THEN "convert_87" ELSE "convert_89"
       ELSE
           /\ pc' = "convert_89"
           /\ UNCHANGED events
    /\ UNCHANGED << cli, files, las, las_files, handles, dest, do_compress,
                    merge_arg, answer, ending >>

\* lines 86-87
ConvertConfirm ==
    /\ pc = "convert_87"
    /\ \E a \in {"yes", "no", "eof"} :
          /\ answer' = a
          /\ events' = Append(events, Ev("confirm", EMPTY))
          /\ IF Proceeds(a)
             THEN pc' = "convert_89" /\ UNCHANGED ending
             ELSE Finish(1, "UserDeclined", TRUE, TRUE)
    /\ UNCHANGED << cli, files, las, las_files, handles, dest, do_compress,
                    merge_arg >>

\* lines 89-98
ConvertCall ==
    /\ pc = "convert_89"
    /\ events' = Append(events, Ev("convert", EMPTY))
    /\ \E r \in ConvertOutcomes(las[1], point_format_id, file_version) :
          IF r = "ok" THEN
              /\ las' = Some(Converted(las[1], point_format_id, file_version))
              /\ pc' = "convert_100"
              /\ UNCHANGED ending
          ELSE
              /\ EchoAbort(r)
              /\ UNCHANGED las
    /\ UNCHANGED << cli, files, las_files, handles, dest, do_compress,
                    merge_arg, answer >>

\* line 100, in the try's else clause: nothing catches what it raises.
\* openbin_file(output, mode='w') creates or truncates the file; las.write
\* writes to the stream and leaves it open; nothing in main.py closes it.
ConvertWrite ==
    /\ pc = "convert_100"
    /\ LET r == openbin_file(output, "w") IN
       IF r # "ok" THEN
           /\ events' = Append(events, Ev("open_w", output))
           /\ Uncaught(r)
           /\ UNCHANGED << handles, dest, do_compress >>
       ELSE
           /\ events' = events \o << Ev("open_w", output), Ev("write", output) >>
           /\ handles' = handles \cup {Handle(output, "w")}
           /\ do_compress' = Some(DoCompress(output))
           /\ \/ dest' = "written" /\ Return
              \/ dest' \in {"truncated", "partial"} /\ Uncaught("WriteError")
    /\ UNCHANGED << cli, files, las, las_files, merge_arg, answer >>

(***************************************************************************)
(* info                                                                    *)
(***************************************************************************)
\* line 178, and the handler of lines 188-189: fs.errors.ResourceNotFound is
\* echoed and the command returns; nothing else is caught.  pylas.open
\* parses the header; the `with` is entered only once it has returned.
InfoOpen ==
    /\ cmd = "info" /\ pc = "start"
    /\ LET r == openbin_file(file, "r") IN
       IF r = "ResourceNotFound" THEN
           /\ events' = Append(events, Ev("open_r", file))
           /\ Finish(0, r, TRUE, TRUE)
           /\ UNCHANGED handles
       ELSE IF r # "ok" THEN
           /\ events' = Append(events, Ev("open_r", file))
           /\ Uncaught(r)
           /\ UNCHANGED handles
       ELSE IF ~Parses(file) THEN
           /\ events' = events \o << Ev("open_r", file), Ev("read_header", file) >>
           /\ handles' = handles \cup {Handle(file, "r")}
           /\ Uncaught("PylasError")
       ELSE
           /\ events' = events \o << Ev("open_r", file), Ev("read_header", file) >>
           /\ handles' = handles \cup {Handle(file, "r")}
           /\ pc' = "info_179"
           /\ UNCHANGED ending
    /\ UNCHANGED << cli, files, las, las_files, dest, do_compress, merge_arg,
                    answer >>

\* lines 179-187: echo_header, then echo_vlrs and echo_points as asked; both
\* read from the file and may raise.  Leaving the `with` closes the stream.
InfoBody ==
    /\ pc = "info_179"
    /\ handles' = handles \ {Handle(file, "r")}
    /\ \/ /\ events' = events
                 \o (IF vlrs THEN << Ev("read_vlrs", file) >> ELSE <<>>)
                 \o (IF points THEN << Ev("read", file) >> ELSE <<>>)
          /\ Return
       \/ /\ vlrs
          /\ events' = Append(events, Ev("read_vlrs", file))
          /\ Uncaught("PylasError")
       \/ /\ points
          /\ events' = events
                 \o (IF vlrs THEN << Ev("read_vlrs", file) >> ELSE <<>>)
                 \o << Ev("read", file) >>
          /\ Uncaught("PylasError")
    /\ UNCHANGED << cli, files, las, las_files, dest, do_compress, merge_arg,
                    answer >>

(***************************************************************************)
(* merge                                                                   *)
(***************************************************************************)
\* A line 215 that takes the first of several FILES as a glob too.
ExpandsGlob_Always(fs) == Len(fs) >= 1

\* line 215: the condition under which FILES is taken as a glob
ExpandsGlob(fs) == Len(fs) = 1

\* lines 212-213: click.BadArgumentUsage is a UsageError
MergeCheckArgs ==
    /\ cmd = "merge" /\ pc = "start"
    /\ IF Len(files) = 0
       THEN Finish(2, "UsageError", TRUE, TRUE)
       ELSE pc' = "merge_215" /\ UNCHANGED ending
    /\ UNCHANGED << cli, files, las, las_files, events, handles, dest,
                    do_compress, merge_arg, answer >>

\* lines 215-219: not inside a try; fs.open_fs raises CreateFailed for a
\* directory that does not exist.
MergeResolve ==
    /\ pc = "merge_215"
    /\ IF ExpandsGlob(files) THEN
           LET path == files[1]
               base == PathSplit(path)[1]
               pattern == PathSplit(path)[2]
           IN  IF base \notin Dirs THEN
                   /\ Uncaught("CreateFailed")
                   /\ UNCHANGED << files, events >>
               ELSE
                   /\ files' = Prefixed(base, GlobPaths(Listing(base), pattern))
                   /\ events' = Append(events, Ev("glob", path))
                   /\ pc' = "merge_221"
                   /\ UNCHANGED ending
       ELSE
           /\ pc' = "merge_221"
           /\ UNCHANGED << files, events, ending >>
    /\ UNCHANGED << cli, las, las_files, handles, dest, do_compress,
                    merge_arg, answer >>

\* line 221, one turn of the comprehension: the next file is opened and
\* read; nothing catches what either call raises.
MergeRead ==
    /\ pc = "merge_221"
    /\ Len(las_files) < Len(files)
    /\ LET f == files[Len(las_files) + 1]
           r == openbin_file(f, "r")
       IN  IF r # "ok" THEN
               /\ events' = Append(events, Ev("open_r", f))
               /\ Uncaught(r)
               /\ UNCHANGED << las_files, handles >>
           ELSE IF ~Parses(f) THEN
               /\ events' = events \o << Ev("open_r", f), Ev("read", f) >>
               /\ \E closed \in BOOLEAN :
                     handles' = IF closed THEN handles
                                ELSE handles \cup {Handle(f, "r")}
               /\ Uncaught("PylasError")
               /\ UNCHANGED las_files
           ELSE
               /\ events' = events \o << Ev("open_r", f), Ev("read", f) >>
               /\ las_files' = Append(las_files, Parsed(f))
               /\ UNCHANGED << pc, handles, ending >>
    /\ UNCHANGED << cli, files, las, dest, do_compress, merge_arg, answer >>

\* A merge that opens DST before it calls pylas.merge.
MergeCall_OpensFirst ==
    /\ pc = "merge_221"
    /\ Len(las_files) = Len(files)
    /\ events' = Append(events, Ev("merge", EMPTY))
    /\ merge_arg' = Some(Sources(las_files))
    /\ dest' = IF openbin_file(dst, "w") = "ok" THEN "truncated" ELSE dest
    /\ \E r \in MergeOutcomes(las_files) :
          IF r = "ok" THEN
              /\ las' = Some(Merged(las_files))
              /\ pc' = "merge_227"
              /\ UNCHANGED ending
          ELSE
              /\ EchoAbort("MergeError")
              /\ UNCHANGED las
    /\ UNCHANGED << cli, files, las_files, handles, do_compress, answer >>

\* lines 223-225 and 228-230
MergeCall ==
    /\ pc = "merge_221"
    /\ Len(las_files) = Len(files)
    /\ events' = Append(events, Ev("merge", EMPTY))
    /\ merge_arg' = Some(Sources(las_files))
    /\ \E r \in MergeOutcomes(las_files) :
          IF r = "ok" THEN
              /\ las' = Some(Merged(las_files))
              /\ pc' = "merge_227"
              /\ UNCHANGED ending
          ELSE
              /\ EchoAbort("MergeError")
              /\ UNCHANGED las
    /\ UNCHANGED << cli, files, las_files, handles, dest, do_compress, answer >>

\* lines 226-230: inside the try, so what openbin_file or write raises is
\* echoed and the run aborted; the file openbin_file created stays as the
\* failed write left it, and the stream stays open.
MergeWrite ==
    /\ pc = "merge_227"
    /\ LET r == openbin_file(dst, "w") IN
       IF r # "ok" THEN
           /\ events' = Append(events, Ev("open_w", dst))
           /\ EchoAbort(r)
           /\ UNCHANGED << handles, dest, do_compress >>
       ELSE
           /\ events' = events \o << Ev("open_w", dst), Ev("write", dst) >>
           /\ handles' = handles \cup {Handle(dst, "w")}
           /\ do_compress' = Some(DoCompress(dst))
           /\ \/ dest' = "written" /\ Return
              \/ dest' \in {"truncated", "partial"} /\ EchoAbort("WriteError")
    /\ UNCHANGED << cli, files, las, las_files, merge_arg, answer >>

Next ==
    \/ ConvertValidateFormat
    \/ ConvertValidateVersion
    \/ ConvertRead
    \/ ConvertLoss
    \/ ConvertConfirm
    \/ ConvertCall
    \/ ConvertWrite
    \/ InfoOpen
    \/ InfoBody
    \/ MergeCheckArgs
    \/ MergeResolve
    \/ MergeRead
    \/ MergeCall
    \/ MergeWrite

Spec == Init /\ [][Next]_vars

(***************************************************************************)
(* Reading the record of a run.                                            *)
(***************************************************************************)
HasEvent(op) == \E i \in 1..Len(events) : events[i].op = op

IsOpenR(e) == e.op = "open_r"

\* The names the run opened for reading, in the order it opened them.
OpenedForReading ==
    LET sel == SelectSeq(events, IsOpenR)
    IN  [ i \in 1..Len(sel) |-> sel[i].name ]

IsPrefix(s, t) == Len(s) <= Len(t) /\ s = SubSeq(t, 1, Len(s))

\* The destination has been opened for writing, or is no longer as it was.
OutputTouched == HasEvent("open_w") \/ HasEvent("write") \/ dest # "untouched"

\* The requested conversion drops a dimension of the input file.
Lossy ==
    /\ point_format_id # None
    /\ openbin_file(input, "r") = "ok"
    /\ Parses(input)
    /\ Dimensions(Parsed(input).fmt) \ Dimensions(point_format_id[1]) # {}

\* The destination name of the command that writes.
Destination == IF cmd = "convert" THEN output ELSE dst

\* The files a folder holds, as paths under the folder's name.
FolderFiles(d) == [ i \in 1..Len(Listing(d)) |-> d \o SLASH \o Listing(d)[i].name ]

\* The argument names a directory that exists.
NamesFolder(path) ==
    /\ PathSplit(path)[1] \in Dirs
    /\ \E e \in Stat(PathSplit(path)[1], PathSplit(path)[2]) : e.kind = "dir"

(***************************************************************************)
(* C1.  A convert to a point format that drops dimensions of the input     *)
(* opens and writes its output only if --force was given or the user       *)
(* answered yes; after a no, or an end of input at the prompt, the run is  *)
(* over, aborted, and the output was neither opened nor written.           *)
(***************************************************************************)
C1_NoLossyWriteWithoutConsent ==
    cmd = "convert" =>
        /\ (OutputTouched /\ Lossy) => (force \/ answer = "yes")
        /\ answer \in {"no", "eof"} =>
               (Done /\ exit_code = Some(1) /\ ~OutputTouched /\ do_compress = None)

C1_Witness ==
    /\ cmd = "convert" /\ Lossy /\ ~force
    /\ answer = "no" /\ HasEvent("confirm") /\ Done

(***************************************************************************)
(* C2.  A convert asked for a point format or a version that pylas does    *)
(* not support is rejected with a message and aborted, and does no I/O at  *)
(* all: no file is opened, read, created or written at any point of the    *)
(* run.                                                                    *)
(***************************************************************************)
C2_RejectedBeforeIO ==
    (/\ cmd = "convert"
     /\ \/ point_format_id # None /\ point_format_id[1] \notin SupportedPointFormats
        \/ file_version # None /\ file_version[1] \notin SupportedVersions)
    => /\ events = <<>> /\ handles = {} /\ dest = "untouched" /\ las = None
       /\ pc \in {"start", "convert_72", "done"}
       /\ Done => (exit_code = Some(1) /\ message /\ caught
                   /\ error \in {"UnsupportedPointFormat", "UnsupportedVersion"})

C2_Witness ==
    /\ cmd = "convert" /\ Done
    /\ point_format_id = Some(3) /\ file_version = Some("1.5")
    /\ error = "UnsupportedVersion" /\ input = N_a_las

(***************************************************************************)
(* C5.  Whenever convert or merge writes, the do_compress flag it passes   *)
(* is true exactly when the destination name ends with ".laz"; the flag is *)
(* a function of the destination name alone.                               *)
(***************************************************************************)
C5_CompressIffLazSuffix ==
    do_compress # None =>
        LET n == Len(Destination) IN
        do_compress[1] =
            (/\ n >= 4
             /\ Destination[n - 3] = "." /\ Destination[n - 2] = "l"
             /\ Destination[n - 1] = "a" /\ Destination[n] = "z")

C5_Witness ==
    /\ cmd = "merge" /\ dest = "written"
    /\ dst = O_mid /\ do_compress = Some(FALSE)

(***************************************************************************)
(* C8.  Given two or more FILES, merge takes each as it stands: no glob is *)
(* run, the files are opened for reading in the order given, each once,    *)
(* and pylas.merge is given the files in that same order.                  *)
(***************************************************************************)
C8_ExplicitSourcesInOrder ==
    (cmd = "merge" /\ Len(cli_files) >= 2) =>
        /\ files = cli_files
        /\ ~HasEvent("glob")
        /\ IsPrefix(OpenedForReading, cli_files)
        /\ Len(las_files) <= Len(OpenedForReading)
        /\ IsPrefix(Sources(las_files), cli_files)
        /\ merge_arg # None =>
               (merge_arg[1] = cli_files /\ OpenedForReading = cli_files)

C8_Witness ==
    /\ cmd = "merge" /\ Len(cli_files) = 3
    /\ cli_files = << N_d \o SLASH \o N_x_las, N_a_las, N_d \o SLASH \o N_x_las >>
    /\ merge_arg = Some(cli_files)
    /\ dest = "written" /\ las[1].count = 4

(***************************************************************************)
(* C3, as claimed.  No failing run of convert or merge leaves the          *)
(* destination created, truncated or partly written: whatever the error,   *)
(* the write itself included, the destination is as it was before the run. *)
(***************************************************************************)
C3_Original ==
    (cmd \in {"convert", "merge"} /\ Done /\ exit_code # Some(0))
        => dest = "untouched"

(***************************************************************************)
(* C3, amended.  A run of convert or merge that fails before the write     *)
(* begins (a rejected request, an input that cannot be opened or read, a   *)
(* failed pylas.convert or pylas.merge, a declined confirmation, a         *)
(* destination that cannot be opened) leaves the destination as it was; a  *)
(* run whose write fails leaves the file openbin_file created or           *)
(* truncated, as the failed write left it.                                 *)
(***************************************************************************)
C3_UntouchedUnlessWriteFails ==
    (cmd \in {"convert", "merge"} /\ Done /\ exit_code # Some(0))
        => IF error = "WriteError"
           THEN dest \in {"truncated", "partial"}
           ELSE dest = "untouched" /\ ~HasEvent("write") /\ do_compress = None

C3_Witness ==
    /\ cmd = "merge" /\ Done /\ exit_code = Some(1)
    /\ error = "MergeError" /\ Len(las_files) = 2
    /\ openbin_file(dst, "w") = "ok"
    /\ dest = "untouched"

(***************************************************************************)
(* C4, as claimed.  Every error raised in convert, info or merge is caught *)
(* by the command, shown to the user as a message, and ends the run with a *)
(* non-zero exit code.                                                     *)
(***************************************************************************)
C4_ErrorsCaughtAndNonZero ==
    (Done /\ error # "none")
        => (caught /\ message /\ exit_code # Some(0))

(***************************************************************************)
(* C6, as claimed.  When merge has no source to read (no FILES given, or a *)
(* single pattern that matches nothing) the run ends with a usage error,   *)
(* pylas.merge is never called and the destination is never opened.        *)
(***************************************************************************)
C6_EmptySourcesIsUsageError ==
    (/\ cmd = "merge"
     /\ \/ cli_files = <<>>
        \/ Len(cli_files) = 1 /\ HasEvent("glob") /\ files = <<>>)
    => /\ ~HasEvent("merge")
       /\ ~OutputTouched
       /\ Done => (error = "UsageError" /\ exit_code = Some(2))

(***************************************************************************)
(* C7, as claimed.  merge given one argument that names a folder reads     *)
(* exactly the files of that folder, and what it writes has as many points *)
(* as those files together.                                                *)
(***************************************************************************)
C7_FolderArgumentMergesFolder ==
    (cmd = "merge" /\ Len(cli_files) = 1 /\ NamesFolder(cli_files[1]))
    => /\ pc \notin {"start", "merge_215"} => files = FolderFiles(cli_files[1])
       /\ Done => (dest = "written"
                   /\ las # None
                   /\ las[1].count = SumCounts(Listing(cli_files[1])))

(***************************************************************************)
(* C9, as claimed.  When a run of convert, info or merge is over, however  *)
(* it ended, every file handle it opened has been closed.                  *)
(***************************************************************************)
C9_NoHandleLeftOpen ==
    Done => handles = {}

(***************************************************************************)
(* C10, as claimed.  Under --force with a target point format the lost     *)
(* dimensions are still computed, the confirmation is never asked and the  *)
(* run goes on to the conversion; with no target point format the lost     *)
(* dimensions are never computed.                                          *)
(***************************************************************************)
C10_Original ==
    cmd = "convert" =>
        /\ (force /\ point_format_id # None) =>
               /\ ~HasEvent("confirm") /\ pc # "convert_87"
               /\ HasEvent("convert") => HasEvent("lost_dimensions")
               /\ (Done /\ las # None) => HasEvent("convert")
        /\ point_format_id = None => ~HasEvent("lost_dimensions")

(***************************************************************************)
(* C10, amended.  Under --force with a target point format neither the     *)
(* lost dimensions are computed nor the confirmation asked, and a run that *)
(* has read its input goes on to the conversion; with no target point      *)
(* format the lost dimensions are never computed (nor the confirmation     *)
(* asked).                                                                 *)
(***************************************************************************)
C10_ForceSkipsAnalysisAndGate ==
    cmd = "convert" =>
        /\ (force /\ point_format_id # None) =>
               /\ ~HasEvent("confirm") /\ pc # "convert_87"
               /\ ~HasEvent("lost_dimensions")
               /\ (Done /\ las # None) => HasEvent("convert")
        /\ point_format_id = None =>
               (~HasEvent("lost_dimensions") /\ ~HasEvent("confirm"))

C10_Witness ==
    /\ cmd = "convert" /\ force /\ Lossy
    /\ HasEvent("convert") /\ dest = "written"
    /\ las[1].fmt = point_format_id[1]

====
